---- MODULE Spec2Model ----
(***************************************************************************)
(* Model of the cryptocurrency ETL pipeline (src/ingestion/etl.py), its    *)
(* extractors (src/ingestion/sources), its transformers                    *)
(* (src/ingestion/transformers.py) and the unified schema                  *)
(* (src/ingestion/schemas.py).                                             *)
(*                                                                         *)
(* Python values are tagged records: None, numbers, strings (sequences of  *)
(* one-character strings) and mappings (functions from keys to values).    *)
(***************************************************************************)
EXTENDS Integers, Sequences, FiniteSets, TLC

\* ------------------------------------------------------------------ bounds
MaxLen == 2          \* longest raw list handed to a transformer (SpecTransform)
MaxBatch == 1        \* longest batch an extractor returns (Spec)
MaxCalls == 2        \* calls made on one ETLPipeline instance (Spec)
MaxIngestions == 3   \* ingestions started on one ETLPipeline instance (Spec)
MaxDepth == 3        \* requests one get_tickers call can nest before the
                     \* recursion limit of the interpreter ends it (Spec)
MaxCursor == 1       \* largest cursor of a direct update_checkpoint call (Spec)
MaxWriterCalls == 2  \* update_checkpoint calls of each concurrent writer (SpecWriters)
MaxWriterCursor == 2 \* largest cursor a concurrent writer passes (SpecWriters)
MaxLookups == 1      \* GET /data/{crypto_id} requests served (SpecApi)

\* ------------------------------------------------------------ Python values
Null == [t |-> "null"]
Num(n) == [t |-> "num", n |-> n]
Str(s) == [t |-> "str", s |-> s]
Map(m) == [t |-> "map", m |-> m]
EmptyMap == Map(<<>>)

\* dict.get(k, d)
Get(m, k, d) == IF k \in DOMAIN m THEN m[k] ELSE d

\* truth value of a Python object, as used by `or` and `if`
Truthy(v) ==
    CASE v.t = "null" -> FALSE
      [] v.t = "num" -> v.n # 0
      [] v.t = "str" -> v.s # <<>>
      [] v.t = "map" -> DOMAIN v.m # {}

\* a or b
PyOr(a, b) == IF Truthy(a) THEN a ELSE b

\* ---------------------------------------------------------------- strings
Digits == <<"0", "1", "2", "3", "4", "5", "6", "7", "8", "9">>
IsDigit(c) == \E i \in 1..10 : Digits[i] = c
DigitVal(c) == (CHOOSE i \in 1..10 : Digits[i] = c) - 1
IsSpace(c) == c = " "

RECURSIVE LStrip(_)
LStrip(s) == IF s # <<>> /\ IsSpace(Head(s)) THEN LStrip(Tail(s)) ELSE s

RECURSIVE RStrip(_)
RStrip(s) ==
    IF s # <<>> /\ IsSpace(s[Len(s)]) THEN RStrip(SubSeq(s, 1, Len(s) - 1)) ELSE s

\* str.strip()
Strip(s) == RStrip(LStrip(s))

LowerChar(c) ==
    CASE c = "A" -> "a"
      [] c = "B" -> "b"
      [] c = "N" -> "n"
      [] OTHER -> c

\* str.lower()
Lower(s) == [i \in 1..Len(s) |-> LowerChar(s[i])]

\* str.replace(',', '')
RemoveCommas(s) == SelectSeq(s, LAMBDA c : c # ",")

RECURSIVE NatToStr(_)
NatToStr(n) ==
    IF n < 10 THEN <<Digits[n + 1]>> ELSE NatToStr(n \div 10) \o <<Digits[(n % 10) + 1]>>

IntToStr(n) == IF n < 0 THEN <<"-">> \o NatToStr(-n) ELSE NatToStr(n)

\* str(v) for the values a row can hold
PyStr(v) ==
    CASE v.t = "null" -> <<"N", "o", "n", "e">>
      [] v.t = "num" -> IntToStr(v.n)
      [] v.t = "str" -> v.s
      [] v.t = "map" -> <<"{", "}">>

RECURSIVE DigitsToNat(_, _)
DigitsToNat(s, acc) ==
    IF s = <<>> THEN acc ELSE DigitsToNat(Tail(s), acc * 10 + DigitVal(Head(s)))

AllDigits(s) == s # <<>> /\ \A i \in 1..Len(s) : IsDigit(s[i])

\* float(s) once s is stripped and its sign is taken off: digits, anything
\* else is a ValueError
ParseBody(body, neg) ==
    IF AllDigits(body)
    THEN [ok |-> TRUE, n |-> IF neg THEN -DigitsToNat(body, 0) ELSE DigitsToNat(body, 0)]
    ELSE [ok |-> FALSE, n |-> 0]

ParseSigned(b, signed) ==
    ParseBody(IF signed THEN Tail(b) ELSE b, signed /\ Head(b) = "-")

ParseStripped(b) == ParseSigned(b, b # <<>> /\ Head(b) \in {"-", "+"})

\* float(s): surrounding whitespace and one sign are accepted
ParseFloat(s) == ParseStripped(Strip(s))

\* ------------------------------------------------- schema (CryptoData)
\* validate_not_empty on the trimmed value
NotEmpty(s) == IF s # <<>> THEN [ok |-> TRUE, s |-> s] ELSE [ok |-> FALSE, s |-> <<>>]

\* a str field with validate_not_empty: the value must be a string that is
\* not empty after trimming; the stored value is the trimmed string
StrField(v) == IF v.t = "str" THEN NotEmpty(Strip(v.s)) ELSE [ok |-> FALSE, s |-> <<>>]

\* a float field: a number, or a string that parses as one
FloatField(v) ==
    CASE v.t = "num" -> [ok |-> TRUE, n |-> v.n]
      [] v.t = "str" -> ParseFloat(v.s)
      [] OTHER -> [ok |-> FALSE, n |-> 0]

\* gt=0
Gt0(f) == IF f.ok /\ f.n > 0 THEN f ELSE [ok |-> FALSE, n |-> 0]

\* price_usd: float = Field(..., gt=0)
PriceField(v) == Gt0(FloatField(v))

\* ge=0 (and validate_positive_numbers)
Ge0(f) == IF f.ok /\ f.n >= 0 THEN [ok |-> TRUE, v |-> Num(f.n)] ELSE [ok |-> FALSE, v |-> Null]

\* Optional[float] = Field(None, ge=0)
NonNegField(v) == IF v.t = "null" THEN [ok |-> TRUE, v |-> Null] ELSE Ge0(FloatField(v))

AnyFloat(f) == IF f.ok THEN [ok |-> TRUE, v |-> Num(f.n)] ELSE [ok |-> FALSE, v |-> Null]

\* Optional[float] = None
OptFloatField(v) == IF v.t = "null" THEN [ok |-> TRUE, v |-> Null] ELSE AnyFloat(FloatField(v))

\* the model built from the validated fields, or a ValidationError
Validated(i, nm, p, m, v, c, source) ==
    IF i.ok /\ nm.ok /\ p.ok /\ m.ok /\ v.ok /\ c.ok
    THEN [ok |-> TRUE,
          rec |-> [crypto_id |-> i.s, crypto_name |-> nm.s, price_usd |-> p.n,
                   market_cap_usd |-> m.v, volume_24h_usd |-> v.v,
                   change_24h_percent |-> c.v, source |-> source]]
    ELSE [ok |-> FALSE]

\* CryptoData(...): the validated record, or a ValidationError (ok = FALSE)
CryptoData(id, name, price, mcap, vol, chg, source) ==
    Validated(StrField(id), StrField(name), PriceField(price), NonNegField(mcap),
              NonNegField(vol), OptFloatField(chg), source)

\* ------------------------------------------------------------ transformers
\* The outcome of one loop iteration: "ok" (record appended), "skip" (caught
\* ValidationError/KeyError/TypeError/ValueError) or "raise" (an exception
\* the except clause does not name leaves the loop and the function).
Appended(r) == [kind |-> "ok", rec |-> r]
Skipped == [kind |-> "skip"]
Escaped == [kind |-> "raise"]

\* (variant) a ValidationError is not caught
FromCtor_uncaught(c) == IF c.ok THEN Appended(c.rec) ELSE Escaped

\* the constructor call inside the try: a ValidationError is caught
FromCtor(c) == IF c.ok THEN Appended(c.rec) ELSE Skipped

\* lines 46-56, quotes being the value of line 44
CoinpaprikaFrom(item, quotes) ==
    IF quotes.t # "map" THEN Escaped
    ELSE FromCtor(CryptoData(
             Get(item.m, "id", Str(<<>>)),
             Get(item.m, "name", Str(<<>>)),
             Get(quotes.m, "price", Num(0)),
             Get(quotes.m, "market_cap", Null),
             Get(quotes.m, "volume_24h", Null),
             Get(quotes.m, "percent_change_24h", Null),
             "coinpaprika"))

\* q.get('USD', {}) for q = item.get('quotes', {})
QuotesUSD(item, q) ==
    IF q.t # "map" THEN Escaped ELSE CoinpaprikaFrom(item, Get(q.m, "USD", EmptyMap))

ItemCoinpaprika(item) ==
    IF item.t # "map" THEN Escaped ELSE QuotesUSD(item, Get(item.m, "quotes", EmptyMap))

ItemCoingecko(item) ==
    IF item.t # "map" THEN Escaped
    ELSE FromCtor(CryptoData(
             Get(item.m, "id", Str(<<>>)),
             Get(item.m, "name", Str(<<>>)),
             Get(item.m, "current_price", Num(0)),
             Get(item.m, "market_cap", Null),
             Get(item.m, "total_volume", Null),
             Get(item.m, "price_change_percentage_24h", Null),
             "coingecko"))

Converted(f) == IF f.ok THEN [ok |-> TRUE, v |-> Num(f.n)] ELSE [ok |-> FALSE, v |-> Null]

\* float(str(raw).replace(',', '')) if raw else dflt
CsvNumber(raw, dflt) ==
    IF Truthy(raw) THEN Converted(ParseFloat(RemoveCommas(PyStr(raw))))
    ELSE [ok |-> TRUE, v |-> dflt]

\* lines 135-145, after the three conversions of lines 131-133
CsvFrom(item, price_usd, market_cap_usd, volume_24h_usd) ==
    IF ~(price_usd.ok /\ market_cap_usd.ok /\ volume_24h_usd.ok)
    THEN Skipped   \* ValueError from float()
    ELSE FromCtor(CryptoData(
             Str(Strip(Lower(PyStr(Get(item.m, "id", Str(<<>>)))))),
             Str(Strip(PyStr(Get(item.m, "name", Str(<<>>))))),
             price_usd.v, market_cap_usd.v, volume_24h_usd.v,
             Null, "csv"))

ItemCsv(item) ==
    IF item.t # "map" THEN Escaped
    ELSE CsvFrom(item,
             CsvNumber(PyOr(Get(item.m, "price_usd", Null),
                            Get(item.m, "price", Str(<<"0">>))), Num(0)),
             CsvNumber(PyOr(Get(item.m, "market_cap_usd", Null),
                            Get(item.m, "market_cap", Null)), Null),
             CsvNumber(PyOr(Get(item.m, "volume_24h_usd", Null),
                            Get(item.m, "volume", Null)), Null))

ItemOutcome(source, item) ==
    CASE source = "coinpaprika" -> ItemCoinpaprika(item)
      [] source = "coingecko" -> ItemCoingecko(item)
      [] source = "csv" -> ItemCsv(item)

\* the for loop of a transformer over raw_data[i..], with the records
\* accumulated so far and the error count; Iteration: one pass of the loop
\* body with the outcome o of its item
RECURSIVE TransformFrom(_, _, _, _, _)
Iteration(source, raw_data, i, transformed, errors, o) ==
    CASE o.kind = "raise" -> [raised |-> TRUE, out |-> <<>>, errors |-> errors]
      [] o.kind = "skip" ->
           TransformFrom(source, raw_data, i + 1, transformed, errors + 1)
      [] o.kind = "ok" ->
           TransformFrom(source, raw_data, i + 1, Append(transformed, o.rec), errors)

TransformFrom(source, raw_data, i, transformed, errors) ==
    IF i > Len(raw_data)
    THEN [raised |-> FALSE, out |-> transformed, errors |-> errors]
    ELSE Iteration(source, raw_data, i, transformed, errors,
                   ItemOutcome(source, raw_data[i]))

Transform(source, raw_data) == TransformFrom(source, raw_data, 1, <<>>, 0)


\* ------------------------------------------------------- raw items (inputs)
CPQuote(usd) == Map([USD |-> Map(usd)])
CPItem(id, name, quotes) == Map([id |-> Str(id), name |-> Str(name), quotes |-> quotes])

CPValid == CPItem(<<"a">>, <<"A">>, CPQuote([price |-> Num(1), market_cap |-> Num(2)]))
CPUpper == CPItem(<<" ", "A">>, <<"A", " ">>, CPQuote([price |-> Num(2)]))
CPNoPrice == CPItem(<<"b">>, <<"B">>, CPQuote(<<>>))
CPNoQuotes == Map([id |-> Str(<<"b">>)])
CPNegCap == CPItem(<<"b">>, <<"B">>, CPQuote([price |-> Num(1), market_cap |-> Num(-1)]))
CPNumId == Map([id |-> Num(5), name |-> Str(<<"B">>), quotes |-> CPQuote([price |-> Num(1)])])
CPBlankName == CPItem(<<"b">>, <<" ">>, CPQuote([price |-> Num(1)]))
CPNullQuotes == CPItem(<<"b">>, <<"B">>, Null)
CPStrQuotes == CPItem(<<"b">>, <<"B">>, Str(<<"x">>))
CPNullUSD == CPItem(<<"b">>, <<"B">>, Map([USD |-> Null]))

CGValid == Map([id |-> Str(<<"a">>), name |-> Str(<<"A">>), current_price |-> Num(1),
                total_volume |-> Num(3)])
CGUpper == Map([id |-> Str(<<"A", " ">>), name |-> Str(<<"A">>), current_price |-> Num(2)])
CGNoPrice == Map([id |-> Str(<<"b">>), name |-> Str(<<"B">>)])
CGNullPrice == Map([id |-> Str(<<"b">>), name |-> Str(<<"B">>), current_price |-> Null])
CGStrPrice == Map([id |-> Str(<<"b">>), name |-> Str(<<"B">>), current_price |-> Str(<<"x">>)])
CGNegVolume == Map([id |-> Str(<<"b">>), name |-> Str(<<"B">>), current_price |-> Num(1),
                    total_volume |-> Num(-1)])
CGNoName == Map([id |-> Str(<<"b">>), current_price |-> Num(1)])

CsvValid == Map([id |-> Str(<<"a">>), name |-> Str(<<"A">>),
                 price |-> Str(<<"1", ",", "0">>), market_cap |-> Str(<<"2">>)])
CsvUsd == Map([id |-> Str(<<"a">>), name |-> Str(<<"A">>), price_usd |-> Num(2)])
CsvBoth == Map([id |-> Str(<<"a">>), name |-> Str(<<"A">>),
                price_usd |-> Str(<<"2">>), price |-> Str(<<"1">>)])
CsvBothZero == Map([id |-> Str(<<"a">>), name |-> Str(<<"A">>),
                    price_usd |-> Num(0), price |-> Str(<<"1">>)])
CsvBothEmpty == Map([id |-> Str(<<"a">>), name |-> Str(<<"A">>),
                     price_usd |-> Str(<<>>), price |-> Str(<<"1">>)])
CsvBothCap == Map([id |-> Str(<<"a">>), name |-> Str(<<"A">>), price |-> Num(1),
                   market_cap_usd |-> Num(0), market_cap |-> Str(<<"2">>),
                   volume_24h_usd |-> Str(<<"3">>), volume |-> Str(<<"4">>)])
CsvUpper == Map([id |-> Str(<<" ", "A">>), name |-> Str(<<"A", " ">>), price |-> Num(1)])
CsvNullId == Map([id |-> Null, name |-> Str(<<"A">>), price |-> Num(1)])
CsvNoPrice == Map([id |-> Str(<<"b">>), name |-> Str(<<"B">>)])
CsvBadPrice == Map([id |-> Str(<<"b">>), name |-> Str(<<"B">>), price |-> Str(<<"x">>)])
CsvBadCap == Map([id |-> Str(<<"b">>), name |-> Str(<<"B">>), price |-> Num(1),
                  market_cap |-> Str(<<"x">>)])
CsvEmptyCap == Map([id |-> Str(<<"b">>), name |-> Str(<<"B">>), price |-> Num(1),
                    market_cap |-> Str(<<>>)])
CsvNegVolume == Map([id |-> Str(<<"b">>), name |-> Str(<<"B">>), price |-> Num(1),
                     volume |-> Num(-1)])

\* the raw items a transformer is tried on; Null stands for a list element
\* that is not a mapping
RawItems(source) ==
    CASE source = "coinpaprika" ->
            {CPValid, CPUpper, CPNoPrice, CPNoQuotes, CPNegCap, CPNumId, CPBlankName,
             CPNullQuotes, CPStrQuotes, CPNullUSD, Null}
      [] source = "coingecko" ->
            {CGValid, CGUpper, CGNoPrice, CGNullPrice, CGStrPrice, CGNegVolume, CGNoName,
             Null}
      [] source = "csv" ->
            {CsvValid, CsvUsd, CsvBoth, CsvBothZero, CsvBothEmpty, CsvBothCap, CsvUpper,
             CsvNullId,
             CsvNoPrice, CsvBadPrice, CsvBadCap, CsvEmptyCap, CsvNegVolume, Null}

SeqsUpTo(S, n) == UNION {[1..k -> S] : k \in 0..n}

KnownSources == <<"coinpaprika", "coingecko", "csv">>
SourceNames == {KnownSources[i] : i \in 1..3}

\* ---------------------------------------------------------------- state
VARIABLES
    rawTbl,       \* committed rows of raw_api_data / raw_csv_data
    cleanedTbl,   \* committed rows of cleaned_data
    ckptTbl,      \* committed rows of etl_checkpoints
    runTbl,       \* committed rows of etl_runs; the id of a row is its index
    pending,      \* objects added to self.db and not yet flushed
    sessOk,       \* FALSE while self.db waits for rollback() after a failed commit
    run_id,       \* self.run_id, 0 for None
    pc,           \* position of the call in progress
    fr,           \* arguments and locals of the call in progress
    ing,          \* number of ingestions started so far (tags the rows they write)
    calls,        \* number of calls made on the pipeline
    log,          \* what the call in progress has done so far
    ckptCalls,    \* the update_checkpoint calls that returned, oldest first
    cleanedDone,  \* the ingestions whose commit of the cleaned batch succeeded
    tSrc, tIn, tOut, tPc,    \* one call of a transformer: source, input, result
    wPc, wFound, wId, wOut,  \* concurrent update_checkpoint calls, one session each
    wCalls,
    apiResp,      \* the response of the last GET /data/{crypto_id}
    apiCalls      \* number of GET /data/{crypto_id} requests served

dbvars == <<rawTbl, cleanedTbl, ckptTbl, runTbl>>
pvars == <<rawTbl, cleanedTbl, ckptTbl, runTbl, pending, sessOk, run_id, pc, fr, ing,
           calls, log, ckptCalls, cleanedDone>>
tvars == <<tSrc, tIn, tOut, tPc>>
wvars == <<wPc, wFound, wId, wOut, wCalls>>
avars == <<apiResp, apiCalls>>
vars == <<rawTbl, cleanedTbl, ckptTbl, runTbl, pending, sessOk, run_id, pc, fr, ing,
          calls, log, ckptCalls, cleanedDone, tSrc, tIn, tOut, tPc,
          wPc, wFound, wId, wOut, wCalls, apiResp, apiCalls>>

Range(f) == {f[i] : i \in DOMAIN f}

Msg(m) == [t |-> "msg", m |-> m]
Bool(b) == [t |-> "bool", b |-> b]
List(l) == [t |-> "list", l |-> l]

NoResult == [raised |-> FALSE, out |-> <<>>, errors |-> 0]

NoFrame ==
    [call |-> "none", sources |-> <<>>, idx |-> 0, cur |-> "", ing |-> 0,
     raw_data |-> <<>>, loaded_count |-> 0, total_records |-> 0, requests |-> 0,
     exc |-> Null, result |-> Null]

\* an entry of the log
Ev(ev, src, n, ok, msg) ==
    [ev |-> ev, src |-> src, ing |-> IF src = "" THEN 0 ELSE fr.ing,
     n |-> n, ok |-> ok, msg |-> msg]

\* ETLPipeline.__init__ on an empty database
InitPipeline ==
    /\ rawTbl = <<>> /\ cleanedTbl = <<>> /\ ckptTbl = <<>> /\ runTbl = <<>>
    /\ pending = <<>> /\ sessOk = TRUE
    /\ run_id = 0
    /\ pc = "idle" /\ fr = NoFrame
    /\ ing = 0 /\ calls = 0 /\ log = <<>> /\ ckptCalls = <<>> /\ cleanedDone = {}

InitIdleTransform ==
    /\ tSrc = "csv" /\ tIn = <<>> /\ tOut = NoResult /\ tPc = "done"

Writers == {1, 2}

InitWriters ==
    /\ wPc = [w \in Writers |-> "idle"]
    /\ wFound = [w \in Writers |-> 0]
    /\ wId = [w \in Writers |-> 0]
    /\ wOut = [w \in Writers |-> "none"]
    /\ wCalls = [w \in Writers |-> 0]

NoResponse == [status |-> 0, crypto_id |-> <<>>, row |-> Null]

InitApi == apiResp = NoResponse /\ apiCalls = 0

Init == InitPipeline /\ InitIdleTransform /\ InitWriters /\ InitApi

\* ---------------------------------------------------------- the session
Pend(tbl, row) == [tbl |-> tbl, row |-> row]

\* the rows of one table among the pending objects, in the order added
Rows(p, tbl) ==
    LET sel == SelectSeq(p, LAMBDA o : o.tbl = tbl)
    IN  [i \in 1..Len(sel) |-> sel[i].row]

\* etl_checkpoints.source is unique: the INSERTs of a flush must not repeat
\* a source
UniqueOk(p, ckpts) ==
    LET all == ckpts \o Rows(p, "ckpt")
    IN  \A i, j \in 1..Len(all) : all[i].source = all[j].source => i = j

\* Session.commit() that succeeds: every pending object p becomes a row.
\* ckpts and runs are the two tables with the UPDATEs of the flush applied.
CommitOk(p, ckpts, runs) ==
    /\ sessOk /\ UniqueOk(p, ckpts)
    /\ rawTbl' = rawTbl \o Rows(p, "raw")
    /\ cleanedTbl' = cleanedTbl \o Rows(p, "cleaned")
    /\ ckptTbl' = ckpts \o Rows(p, "ckpt")
    /\ runTbl' = runs \o Rows(p, "run")
    /\ pending' = <<>>
    /\ sessOk' = TRUE

\* Session.commit() that raises: the transaction is rolled back, the pending
\* objects are expunged, and the session refuses work until rollback()
CommitFail ==
    /\ UNCHANGED dbvars
    /\ pending' = <<>>
    /\ sessOk' = FALSE

\* the exception of a failed commit
CommitError == IF sessOk THEN Msg("OperationalError") ELSE Msg("PendingRollbackError")

\* (variant) the rollback also takes back the raw rows of the ingestion
Rollback_raw ==
    /\ rawTbl' = SelectSeq(rawTbl, LAMBDA r : r.ing # fr.ing)
    /\ UNCHANGED <<cleanedTbl, ckptTbl, runTbl>>
    /\ pending' = <<>>
    /\ sessOk' = TRUE

\* Session.rollback()
Rollback ==
    /\ UNCHANGED dbvars
    /\ pending' = <<>>
    /\ sessOk' = TRUE

\* ------------------------------------------------------ checkpoint store
\* query(ETLCheckpoint).filter_by(source=source).first(): index of the row, 0
\* when there is none
FirstCkpt(source) ==
    IF \E i \in 1..Len(ckptTbl) : ckptTbl[i].source = source
    THEN CHOOSE i \in 1..Len(ckptTbl) :
            /\ ckptTbl[i].source = source
            /\ \A j \in 1..(i - 1) : ckptTbl[j].source # source
    ELSE 0

get_checkpoint(source) ==
    LET i == FirstCkpt(source)
    IN  IF i # 0 THEN ckptTbl[i].last_processed_id ELSE 0

CkptRow(source, last_id, by) ==
    [source |-> source, last_processed_id |-> last_id, ing |-> by]

\* (variant) the row that was found is left as it is
CkptUpdated_stale(source, last_id, by) == ckptTbl

\* update_checkpoint(source, last_id) up to its commit: the table with the
\* found row changed in place, and the pending objects with a new row added
\* when none was found.  by: the ingestion that writes (0: a direct call),
\* standing for the timestamps.
CkptUpdated(source, last_id, by) ==
    LET i == FirstCkpt(source)
    IN  IF i # 0 THEN [ckptTbl EXCEPT ![i] = CkptRow(source, last_id, by)] ELSE ckptTbl

\* (variant) no row is added for a cursor of 0
CkptPending_nonzero(source, last_id, by) ==
    IF FirstCkpt(source) # 0 \/ last_id = 0 THEN pending
    ELSE Append(pending, Pend("ckpt", CkptRow(source, last_id, by)))

CkptPending(source, last_id, by) ==
    IF FirstCkpt(source) # 0 THEN pending
    ELSE Append(pending, Pend("ckpt", CkptRow(source, last_id, by)))

\* ------------------------------------------------------------ run tracker
RunRow(source) ==
    [source |-> source, ended_at |-> FALSE, records_processed |-> 0,
     success |-> FALSE, error_message |-> Null, writes |-> 0]

\* the assignments of end_run to the row it found
RunEnded(row, records_processed, success, error_message) ==
    [row EXCEPT !.ended_at = TRUE, !.records_processed = records_processed,
                !.success = success, !.error_message = error_message,
                !.writes = @ + 1]

AtRest == {"idle", "returned", "raised"}

\* ------------------------------------------------------------ inputs
\* what the upstream of a source can hold when it is extracted
PipelineItems(source) ==
    CASE source = "coinpaprika" -> {CPValid, CPUpper, CPNoPrice, CPNullQuotes}
      [] source = "coingecko" -> {CGValid, CGNoPrice, CGNegVolume}
      [] source = "csv" -> {CsvValid, CsvBadPrice}
      [] OTHER -> {}

Batches(source) == SeqsUpTo(PipelineItems(source), MaxBatch)

\* the `sources` arguments run is called with; Null is the default (None)
RunArgs ==
    {Null, List(<<>>), List(<<"csv">>), List(<<"coingecko", "coinpaprika">>),
     List(<<"bogus">>), List(<<"coinpaprika", "csv">>)}

\* ------------------------------------------------------------------- run
\* run(sources): lines 287-296
run(arg) ==
    /\ pc \in AtRest /\ calls < MaxCalls
    /\ calls' = calls + 1
    /\ fr' = [NoFrame EXCEPT !.call = "run",
                             !.sources = IF arg = Null THEN KnownSources ELSE arg.l]
    /\ pc' = "start_run"
    /\ log' = <<>>
    /\ UNCHANGED <<dbvars, pending, sessOk, run_id, ing, ckptCalls, cleanedDone, tvars, wvars, avars>>

\* start_run(",".join(sources)), called outside the try of run
start_run_ok ==
    /\ pc = "start_run"
    /\ CommitOk(Append(pending, Pend("run", RunRow(fr.sources))), ckptTbl, runTbl)
    /\ run_id' = Len(runTbl')
    /\ fr' = [fr EXCEPT !.idx = 1, !.total_records = 0]
    /\ pc' = "run_if"
    /\ log' = Append(log, Ev("start_run", "", run_id', TRUE, Null))
    /\ UNCHANGED <<ing, calls, ckptCalls, cleanedDone, tvars, wvars, avars>>

start_run_fail ==
    /\ pc = "start_run"
    /\ CommitFail
    /\ fr' = [fr EXCEPT !.exc = CommitError]
    /\ pc' = "raised"
    /\ log' = Append(log, Ev("start_run", "", 0, FALSE, CommitError))
    /\ UNCHANGED <<run_id, ing, calls, ckptCalls, cleanedDone, tvars, wvars, avars>>

\* (variant) the sources are taken in the order of the argument
run_ingest_as_listed ==
    /\ pc = "run_if" /\ fr.idx <= Len(fr.sources)
    /\ fr.sources[fr.idx] \in SourceNames
    /\ ing < MaxIngestions
    /\ ing' = ing + 1
    /\ fr' = [fr EXCEPT !.cur = fr.sources[fr.idx], !.ing = ing + 1,
                        !.raw_data = <<>>, !.loaded_count = 0, !.requests = 0]
    /\ pc' = "extract"
    /\ UNCHANGED <<dbvars, pending, sessOk, run_id, calls, log, ckptCalls, cleanedDone, tvars, wvars, avars>>

\* one of the three `if '<source>' in sources:` of run, taken: the ingestion
\* of that source starts
run_ingest ==
    /\ pc = "run_if" /\ fr.idx <= 3
    /\ KnownSources[fr.idx] \in Range(fr.sources)
    /\ ing < MaxIngestions
    /\ ing' = ing + 1
    /\ fr' = [fr EXCEPT !.cur = KnownSources[fr.idx], !.ing = ing + 1,
                        !.raw_data = <<>>, !.loaded_count = 0, !.requests = 0]
    /\ pc' = "extract"
    /\ UNCHANGED <<dbvars, pending, sessOk, run_id, calls, log, ckptCalls, cleanedDone, tvars, wvars, avars>>

\* ... not taken
run_skip ==
    /\ pc = "run_if" /\ fr.idx <= 3
    /\ KnownSources[fr.idx] \notin Range(fr.sources)
    /\ fr' = [fr EXCEPT !.idx = @ + 1]
    /\ UNCHANGED <<dbvars, pending, sessOk, run_id, pc, ing, calls, log, ckptCalls, cleanedDone,
                   tvars, wvars, avars>>

\* a direct call of ingest_from_coinpaprika / _coingecko / _csv
ingest_direct(source) ==
    /\ pc \in AtRest /\ calls < MaxCalls /\ ing < MaxIngestions
    /\ calls' = calls + 1
    /\ ing' = ing + 1
    /\ fr' = [NoFrame EXCEPT !.call = "ingest", !.cur = source, !.ing = ing + 1]
    /\ pc' = "extract"
    /\ log' = <<>>
    /\ UNCHANGED <<dbvars, pending, sessOk, run_id, ckptCalls, cleanedDone, tvars, wvars, avars>>


\* ------------------------------------------------------------ extractors
\* CoinPaprikaClient.get_tickers: one requests.get and what follows it
get_tickers_ok ==
    /\ pc = "extract" /\ fr.cur = "coinpaprika" /\ fr.requests < MaxDepth
    /\ \E data \in Batches("coinpaprika") :
          fr' = [fr EXCEPT !.requests = 0, !.raw_data = data]
    /\ pc' = "add_raw"
    /\ log' = Append(log, Ev("extract", fr.cur, 0, TRUE, Null))
    /\ UNCHANGED <<dbvars, pending, sessOk, run_id, ing, calls, ckptCalls, cleanedDone, tvars, wvars, avars>>

\* status 429: sleep, then `return self.get_tickers(limit)`
get_tickers_429 ==
    /\ pc = "extract" /\ fr.cur = "coinpaprika" /\ fr.requests < MaxDepth
    /\ fr' = [fr EXCEPT !.requests = @ + 1]
    /\ UNCHANGED <<dbvars, pending, sessOk, run_id, pc, ing, calls, log, ckptCalls, cleanedDone,
                   tvars, wvars, avars>>

\* the nesting has reached the depth the interpreter allows: the call that
\* would issue the next request raises instead
get_tickers_limit ==
    /\ pc = "extract" /\ fr.cur = "coinpaprika" /\ fr.requests = MaxDepth
    /\ fr' = [fr EXCEPT !.requests = 0, !.exc = Msg("RecursionError")]
    /\ pc' = "except"
    /\ log' = Append(log, Ev("extract", fr.cur, 0, FALSE, Msg("RecursionError")))
    /\ UNCHANGED <<dbvars, pending, sessOk, run_id, ing, calls, ckptCalls, cleanedDone, tvars, wvars, avars>>

\* a transport error, or raise_for_status on another error status
get_tickers_error ==
    /\ pc = "extract" /\ fr.cur = "coinpaprika" /\ fr.requests < MaxDepth
    /\ fr' = [fr EXCEPT !.requests = 0, !.exc = Msg("RequestException")]
    /\ pc' = "except"
    /\ log' = Append(log, Ev("extract", fr.cur, 0, FALSE, Msg("RequestException")))
    /\ UNCHANGED <<dbvars, pending, sessOk, run_id, ing, calls, ckptCalls, cleanedDone, tvars, wvars, avars>>

\* CoinGeckoClient.get_coins_markets: a 2xx response
get_coins_markets_ok ==
    /\ pc = "extract" /\ fr.cur = "coingecko"
    /\ \E data \in Batches("coingecko") : fr' = [fr EXCEPT !.raw_data = data]
    /\ pc' = "add_raw"
    /\ log' = Append(log, Ev("extract", fr.cur, 0, TRUE, Null))
    /\ UNCHANGED <<dbvars, pending, sessOk, run_id, ing, calls, ckptCalls, cleanedDone, tvars, wvars, avars>>

\* raise_for_status on any error status (status = 429 included), or a
\* transport error
get_coins_markets_error(status) ==
    /\ pc = "extract" /\ fr.cur = "coingecko"
    /\ fr' = [fr EXCEPT !.exc = Msg("RequestException")]
    /\ pc' = "except"
    /\ log' = Append(log, Ev("extract", fr.cur, status, FALSE, Msg("RequestException")))
    /\ UNCHANGED <<dbvars, pending, sessOk, run_id, ing, calls, ckptCalls, cleanedDone, tvars, wvars, avars>>

\* CSVReader.read
read_ok ==
    /\ pc = "extract" /\ fr.cur = "csv"
    /\ \E data \in Batches("csv") : fr' = [fr EXCEPT !.raw_data = data]
    /\ pc' = "add_raw"
    /\ log' = Append(log, Ev("extract", fr.cur, 0, TRUE, Null))
    /\ UNCHANGED <<dbvars, pending, sessOk, run_id, ing, calls, ckptCalls, cleanedDone, tvars, wvars, avars>>

read_error ==
    /\ pc = "extract" /\ fr.cur = "csv"
    /\ fr' = [fr EXCEPT !.exc = Msg("FileNotFoundError")]
    /\ pc' = "except"
    /\ log' = Append(log, Ev("extract", fr.cur, 0, FALSE, Msg("FileNotFoundError")))
    /\ UNCHANGED <<dbvars, pending, sessOk, run_id, ing, calls, ckptCalls, cleanedDone, tvars, wvars, avars>>

\* ------------------------------------------------------------ ingestion
RawRow(source, item, by) == [source |-> source, raw_data |-> item, ing |-> by]
CleanedRow(rec, by) == [data_source |-> rec.source, rec |-> rec, ing |-> by]

\* (variant) the checkpoint of the source is added with the raw rows
add_raw_with_checkpoint ==
    /\ pc = "add_raw"
    /\ pending' = (pending \o
          [i \in 1..Len(fr.raw_data) |->
              Pend("raw", RawRow(fr.cur, fr.raw_data[i], fr.ing))])
          \o (IF FirstCkpt(fr.cur) = 0
              THEN <<Pend("ckpt", CkptRow(fr.cur, Len(fr.raw_data), fr.ing))>>
              ELSE <<>>)
    /\ pc' = "commit_raw"
    /\ UNCHANGED <<dbvars, sessOk, run_id, fr, ing, calls, log, ckptCalls, cleanedDone, tvars, wvars, avars>>

\* "Store raw data": the loop of self.db.add(raw)
add_raw ==
    /\ pc = "add_raw"
    /\ pending' = pending \o
          [i \in 1..Len(fr.raw_data) |->
              Pend("raw", RawRow(fr.cur, fr.raw_data[i], fr.ing))]
    /\ pc' = "commit_raw"
    /\ UNCHANGED <<dbvars, sessOk, run_id, fr, ing, calls, log, ckptCalls, cleanedDone, tvars, wvars, avars>>

\* (variant) no commit after the raw rows: they stay pending
commit_raw_deferred ==
    /\ pc = "commit_raw"
    /\ sessOk
    /\ pc' = "transform"
    /\ log' = Append(log, Ev("raw", fr.cur, Len(fr.raw_data), TRUE, Null))
    /\ UNCHANGED <<dbvars, pending, sessOk, run_id, fr, ing, calls, ckptCalls, cleanedDone, tvars, wvars, avars>>

\* ... and its self.db.commit()
commit_raw_ok ==
    /\ pc = "commit_raw"
    /\ CommitOk(pending, ckptTbl, runTbl)
    /\ pc' = "transform"
    /\ log' = Append(log, Ev("raw", fr.cur, Len(fr.raw_data), TRUE, Null))
    /\ UNCHANGED <<run_id, fr, ing, calls, ckptCalls, cleanedDone, tvars, wvars, avars>>

commit_raw_fail ==
    /\ pc = "commit_raw"
    /\ CommitFail
    /\ fr' = [fr EXCEPT !.exc = CommitError]
    /\ pc' = "except"
    /\ log' = Append(log, Ev("raw", fr.cur, 0, FALSE, CommitError))
    /\ UNCHANGED <<run_id, ing, calls, ckptCalls, cleanedDone, tvars, wvars, avars>>

\* "Load": the loop of self.db.add(cleaned) with loaded_count += 1 over the
\* records the transformer returned
Loaded(transformed) ==
    /\ pending' = pending \o
          [i \in 1..Len(transformed) |-> Pend("cleaned", CleanedRow(transformed[i], fr.ing))]
    /\ fr' = [fr EXCEPT !.loaded_count = Len(transformed)]

\* "Transform" and "Load"
load ==
    /\ pc = "transform"
    /\ ~Transform(fr.cur, fr.raw_data).raised
    /\ Loaded(Transform(fr.cur, fr.raw_data).out)
    /\ pc' = "commit_cleaned"
    /\ UNCHANGED <<dbvars, sessOk, run_id, ing, calls, log, ckptCalls, cleanedDone, tvars, wvars, avars>>

\* the transformer lets an exception through
transform_raises ==
    /\ pc = "transform"
    /\ Transform(fr.cur, fr.raw_data).raised
    /\ fr' = [fr EXCEPT !.exc = Msg("AttributeError")]
    /\ pc' = "except"
    /\ log' = Append(log, Ev("transform", fr.cur, 0, FALSE, Msg("AttributeError")))
    /\ UNCHANGED <<dbvars, pending, sessOk, run_id, ing, calls, ckptCalls, cleanedDone, tvars, wvars, avars>>

commit_cleaned_ok ==
    /\ pc = "commit_cleaned"
    /\ CommitOk(pending, ckptTbl, runTbl)
    /\ pc' = "checkpoint"
    /\ log' = Append(log, Ev("cleaned", fr.cur, fr.loaded_count, TRUE, Null))
    /\ cleanedDone' = cleanedDone \cup {fr.ing}
    /\ UNCHANGED <<run_id, fr, ing, calls, ckptCalls, tvars, wvars, avars>>

\* (variant) the failure leaves the ingestion with the objects still pending
\* in a usable session, and no rollback follows
commit_cleaned_fail_no_rollback ==
    /\ pc = "commit_cleaned"
    /\ fr' = [fr EXCEPT !.exc = Msg("OperationalError")]
    /\ pc' = IF fr.call = "run" THEN "run_except" ELSE "raised"
    /\ log' = log \o <<Ev("cleaned", fr.cur, 0, FALSE, Msg("OperationalError")),
                       Ev("raise", fr.cur, 0, FALSE, Msg("OperationalError"))>>
    /\ UNCHANGED <<dbvars, pending, sessOk, run_id, ing, calls, ckptCalls, cleanedDone,
                   tvars, wvars, avars>>

commit_cleaned_fail ==
    /\ pc = "commit_cleaned"
    /\ CommitFail
    /\ fr' = [fr EXCEPT !.exc = CommitError]
    /\ pc' = "except"
    /\ log' = Append(log, Ev("cleaned", fr.cur, 0, FALSE, CommitError))
    /\ UNCHANGED <<run_id, ing, calls, ckptCalls, cleanedDone, tvars, wvars, avars>>

\* the ingestion returns loaded_count: to run (count added to total_records,
\* next `if`), or to the direct caller
Returned(f, count) ==
    IF f.call = "run"
    THEN [f EXCEPT !.total_records = @ + count, !.idx = @ + 1]
    ELSE [f EXCEPT !.result = Num(count)]

\* (variant) a cursor that accumulates over the ingestions of the source
NewCursor_cumulative(f) == get_checkpoint(f.cur) + f.loaded_count

\* the cursor an ingestion hands to update_checkpoint
NewCursor(f) == f.loaded_count

\* "Update checkpoint": self.update_checkpoint(source, loaded_count), then
\* return loaded_count
checkpoint_ok ==
    /\ pc = "checkpoint"
    /\ CommitOk(CkptPending(fr.cur, NewCursor(fr), fr.ing),
                CkptUpdated(fr.cur, NewCursor(fr), fr.ing), runTbl)
    /\ fr' = Returned(fr, fr.loaded_count)
    /\ pc' = IF fr.call = "run" THEN "run_if" ELSE "returned"
    /\ log' = Append(log, Ev("checkpoint", fr.cur, NewCursor(fr), TRUE, Null))
    /\ ckptCalls' = Append(ckptCalls,
                           [source |-> fr.cur, last_id |-> NewCursor(fr), ing |-> fr.ing])
    /\ UNCHANGED <<run_id, ing, calls, cleanedDone, tvars, wvars, avars>>

\* (variant) the change made to the found row survives the failed commit
checkpoint_fail_row_changed ==
    /\ pc = "checkpoint"
    /\ ckptTbl' = CkptUpdated(fr.cur, NewCursor(fr), fr.ing)
    /\ UNCHANGED <<rawTbl, cleanedTbl, runTbl>>
    /\ pending' = <<>>
    /\ sessOk' = FALSE
    /\ fr' = [fr EXCEPT !.exc = CommitError]
    /\ pc' = "except"
    /\ log' = Append(log, Ev("checkpoint", fr.cur, 0, FALSE, CommitError))
    /\ UNCHANGED <<run_id, ing, calls, ckptCalls, cleanedDone, tvars, wvars, avars>>

checkpoint_fail ==
    /\ pc = "checkpoint"
    /\ CommitFail
    /\ fr' = [fr EXCEPT !.exc = CommitError]
    /\ pc' = "except"
    /\ log' = Append(log, Ev("checkpoint", fr.cur, 0, FALSE, CommitError))
    /\ UNCHANGED <<run_id, ing, calls, ckptCalls, cleanedDone, tvars, wvars, avars>>

\* (variant) the exception is not raised again: the caller goes on
ingest_except_swallowed ==
    /\ pc = "except"
    /\ Rollback
    /\ pc' = IF fr.call = "run" THEN "run_if" ELSE "returned"
    /\ fr' = Returned(fr, 0)
    /\ log' = Append(log, Ev("raise", fr.cur, 0, FALSE, fr.exc))
    /\ UNCHANGED <<run_id, ing, calls, ckptCalls, cleanedDone, tvars, wvars, avars>>

\* except Exception as e: self.db.rollback(); raise
ingest_except ==
    /\ pc = "except"
    /\ Rollback
    /\ pc' = IF fr.call = "run" THEN "run_except" ELSE "raised"
    /\ log' = Append(log, Ev("raise", fr.cur, 0, FALSE, fr.exc))
    /\ UNCHANGED <<run_id, fr, ing, calls, ckptCalls, cleanedDone, tvars, wvars, avars>>


\* ------------------------------------------------------- end of the run
\* What one call of end_run comes to, ok being whether its commit succeeds:
\* a return without effect, an exception from the query, the update
\* committed, or an exception from the commit
EndRunKind(ok) ==
    IF run_id = 0 THEN "noop"
    ELSE IF ~sessOk THEN "query_raises"
    ELSE IF run_id \notin DOMAIN runTbl THEN "noop"
    ELSE IF ok /\ UniqueOk(pending, ckptTbl) THEN "committed"
    ELSE "commit_raises"

end_run(kind, records_processed, success, error_message) ==
    CASE kind = "committed" ->
            CommitOk(pending, ckptTbl,
                     [runTbl EXCEPT ![run_id] =
                         RunEnded(@, records_processed, success, error_message)])
      [] kind = "commit_raises" -> CommitFail
      [] OTHER -> UNCHANGED <<dbvars, pending, sessOk>>

EndRunReturns(kind) == kind \in {"noop", "committed"}
EndRunError(kind) ==
    IF kind = "query_raises" THEN Msg("PendingRollbackError") ELSE Msg("OperationalError")

\* line 313: self.end_run(records_processed=total_records, success=True),
\* then return True; an exception of end_run is caught by the except of run
run_end ==
    /\ pc = "run_if" /\ fr.idx = 4
    /\ \E ok \in BOOLEAN :
          LET kind == EndRunKind(ok)
          IN  /\ end_run(kind, fr.total_records, TRUE, Null)
              /\ pc' = IF EndRunReturns(kind) THEN "returned" ELSE "run_except"
              /\ fr' = IF EndRunReturns(kind) THEN [fr EXCEPT !.result = Bool(TRUE)]
                       ELSE [fr EXCEPT !.exc = EndRunError(kind)]
              /\ log' = log \o <<Ev("end_run", "", fr.total_records, TRUE, Null),
                                 Ev("end_run_done", "", 0, EndRunReturns(kind), Null)>>
    /\ UNCHANGED <<run_id, ing, calls, ckptCalls, cleanedDone, tvars, wvars, avars>>

\* (variant) the handler does not pass the message of the exception
run_except_no_message ==
    /\ pc = "run_except"
    /\ \E ok \in BOOLEAN :
          LET kind == EndRunKind(ok)
          IN  /\ end_run(kind, fr.total_records, FALSE, Null)
              /\ pc' = IF EndRunReturns(kind) THEN "returned" ELSE "raised"
              /\ fr' = IF EndRunReturns(kind) THEN [fr EXCEPT !.result = Bool(FALSE)]
                       ELSE [fr EXCEPT !.exc = EndRunError(kind)]
              /\ log' = log \o <<Ev("end_run", "", fr.total_records, FALSE, Null),
                                 Ev("end_run_done", "", 0, EndRunReturns(kind), Null)>>
    /\ UNCHANGED <<run_id, ing, calls, ckptCalls, cleanedDone, tvars, wvars, avars>>

\* lines 322-331: except Exception as e: self.end_run(records_processed=
\* total_records, success=False, error_message=str(e)), then return False; an
\* exception of this end_run leaves run
run_except ==
    /\ pc = "run_except"
    /\ \E ok \in BOOLEAN :
          LET kind == EndRunKind(ok)
          IN  /\ end_run(kind, fr.total_records, FALSE, fr.exc)
              /\ pc' = IF EndRunReturns(kind) THEN "returned" ELSE "raised"
              /\ fr' = IF EndRunReturns(kind) THEN [fr EXCEPT !.result = Bool(FALSE)]
                       ELSE [fr EXCEPT !.exc = EndRunError(kind)]
              /\ log' = log \o <<Ev("end_run", "", fr.total_records, FALSE, fr.exc),
                                 Ev("end_run_done", "", 0, EndRunReturns(kind), Null)>>
    /\ UNCHANGED <<run_id, ing, calls, ckptCalls, cleanedDone, tvars, wvars, avars>>

\* ------------------------------------------------ direct calls of end_run
\* the caller leaves in self.run_id (a public attribute) an id that names no
\* RunRecord of the database the session is bound to
stale_run_id ==
    /\ pc \in AtRest /\ run_id \in DOMAIN runTbl \cup {0}
    /\ run_id' = Len(runTbl) + 1
    /\ UNCHANGED <<dbvars, pending, sessOk, pc, fr, ing, calls, log, ckptCalls, cleanedDone,
                   tvars, wvars, avars>>

\* end_run(records_processed, success, error_message) called by the caller
end_run_direct(records_processed, success) ==
    /\ pc \in AtRest /\ calls < MaxCalls
    /\ calls' = calls + 1
    /\ \E ok \in BOOLEAN :
          LET kind == EndRunKind(ok)
          IN  /\ end_run(kind, records_processed, success, Null)
              /\ pc' = IF EndRunReturns(kind) THEN "returned" ELSE "raised"
              /\ fr' = IF EndRunReturns(kind) THEN [NoFrame EXCEPT !.call = "end_run"]
                       ELSE [NoFrame EXCEPT !.call = "end_run", !.exc = EndRunError(kind)]
              /\ log' = <<Ev("end_run", "", records_processed, success, Null),
                          Ev("end_run_done", "", 0, EndRunReturns(kind), Null)>>
    /\ UNCHANGED <<run_id, ing, ckptCalls, cleanedDone, tvars, wvars, avars>>

\* --------------------------------------- direct calls of update_checkpoint
CkptSources == SourceNames \cup {"x"}

update_checkpoint_ok(source, last_id) ==
    /\ pc \in AtRest /\ calls < MaxCalls
    /\ calls' = calls + 1
    /\ CommitOk(CkptPending(source, last_id, 0), CkptUpdated(source, last_id, 0), runTbl)
    /\ fr' = [NoFrame EXCEPT !.call = "update_checkpoint", !.cur = source]
    /\ pc' = "returned"
    /\ log' = <<[Ev("checkpoint", source, last_id, TRUE, Null) EXCEPT !.ing = 0]>>
    /\ ckptCalls' = Append(ckptCalls, [source |-> source, last_id |-> last_id, ing |-> 0])
    /\ UNCHANGED <<run_id, ing, cleanedDone, tvars, wvars, avars>>

\* the query raises (the session waits for rollback()) or the commit does
update_checkpoint_fail(source, last_id) ==
    /\ pc \in AtRest /\ calls < MaxCalls
    /\ calls' = calls + 1
    /\ CommitFail
    /\ fr' = [NoFrame EXCEPT !.call = "update_checkpoint", !.cur = source,
                             !.exc = CommitError]
    /\ pc' = "raised"
    /\ log' = <<[Ev("checkpoint", source, last_id, FALSE, CommitError) EXCEPT !.ing = 0]>>
    /\ UNCHANGED <<run_id, ing, ckptCalls, cleanedDone, tvars, wvars, avars>>

\* ------------------------------------------------------------------ Spec
Next ==
    \/ \E arg \in RunArgs : run(arg)
    \/ start_run_ok \/ start_run_fail
    \/ run_ingest \/ run_skip
    \/ \E source \in SourceNames : ingest_direct(source)
    \/ get_tickers_ok \/ get_tickers_429 \/ get_tickers_limit \/ get_tickers_error
    \/ get_coins_markets_ok
    \/ \E status \in {429, 500} : get_coins_markets_error(status)
    \/ read_ok \/ read_error
    \/ add_raw \/ commit_raw_ok \/ commit_raw_fail
    \/ load \/ transform_raises
    \/ commit_cleaned_ok \/ commit_cleaned_fail
    \/ checkpoint_ok \/ checkpoint_fail
    \/ ingest_except
    \/ run_end \/ run_except
    \/ \E source \in CkptSources, last_id \in 0..MaxCursor :
          update_checkpoint_ok(source, last_id) \/ update_checkpoint_fail(source, last_id)
    \/ stale_run_id
    \/ \E success \in BOOLEAN : end_run_direct(0, success)

Spec == Init /\ [][Next]_vars

\* ----------------------------------------- transformers as a state machine
InitTransform ==
    /\ InitPipeline /\ InitWriters /\ InitApi
    /\ tSrc \in SourceNames
    /\ tIn \in SeqsUpTo(RawItems(tSrc), MaxLen)
    /\ tOut = NoResult
    /\ tPc = "ready"

transform_coinpaprika ==
    /\ tPc = "ready" /\ tSrc = "coinpaprika"
    /\ tOut' = Transform("coinpaprika", tIn)
    /\ tPc' = "done"
    /\ UNCHANGED <<tSrc, tIn, pvars, wvars, avars>>

transform_coingecko ==
    /\ tPc = "ready" /\ tSrc = "coingecko"
    /\ tOut' = Transform("coingecko", tIn)
    /\ tPc' = "done"
    /\ UNCHANGED <<tSrc, tIn, pvars, wvars, avars>>

transform_csv ==
    /\ tPc = "ready" /\ tSrc = "csv"
    /\ tOut' = Transform("csv", tIn)
    /\ tPc' = "done"
    /\ UNCHANGED <<tSrc, tIn, pvars, wvars, avars>>

NextTransform == transform_coinpaprika \/ transform_coingecko \/ transform_csv

SpecTransform == InitTransform /\ [][NextTransform]_vars

\* the records of the valid items of a list, in input order
RECURSIVE ValidRecords(_, _)
RecordOf(o) == IF o.kind = "ok" THEN <<o.rec>> ELSE <<>>

ValidRecords(source, raw_data) ==
    IF raw_data = <<>> THEN <<>>
    ELSE RecordOf(ItemOutcome(source, Head(raw_data)))
             \o ValidRecords(source, Tail(raw_data))

TypeOK ==
    /\ pc \in {"idle", "start_run", "run_if", "extract", "add_raw", "commit_raw",
               "transform", "commit_cleaned", "checkpoint", "except", "run_except",
               "returned", "raised"}
    /\ sessOk \in BOOLEAN
    /\ run_id \in 0..(Len(runTbl) + 1)
    /\ calls \in 0..MaxCalls


\* =================================================================== claims
Pos(source) == CHOOSE i \in 1..3 : KnownSources[i] = source

\* the raw items / the cleaned records that ingestion k has committed
RawOf(k) ==
    LET sel == SelectSeq(rawTbl, LAMBDA r : r.ing = k)
    IN  [i \in 1..Len(sel) |-> sel[i].raw_data]

CleanedOf(k) ==
    LET sel == SelectSeq(cleanedTbl, LAMBDA r : r.ing = k)
    IN  [i \in 1..Len(sel) |-> sel[i].rec]

CkptBy(k) == {i \in DOMAIN ckptTbl : ckptTbl[i].ing = k}

\* ingestion k of the call in progress has raised / has returned
IngestRaised(k) == \E i \in DOMAIN log : log[i].ev = "raise" /\ log[i].ing = k
IngestReturned(k) ==
    \E i \in DOMAIN log : log[i].ev = "checkpoint" /\ log[i].ok /\ log[i].ing = k

FirstRaise ==
    CHOOSE i \in DOMAIN log :
        log[i].ev = "raise" /\ \A j \in 1..(i - 1) : log[j].ev # "raise"

Requested == Range(fr.sources) \cap SourceNames

AllCompleted ==
    \A source \in Requested :
        \E i \in DOMAIN log : log[i].ev = "checkpoint" /\ log[i].ok /\ log[i].src = source

\* C1: run never lets an exception out: it always returns a boolean, True
\* when every requested source completed and False otherwise, whatever the
\* extractors and the commits (of start_run, of an ingestion, of end_run) do.
C1_RunAlwaysReturnsBool ==
    fr.call = "run" =>
        /\ pc # "raised"
        /\ pc = "returned" => fr.result = Bool(AllCompleted)

\* C2: once the ingestion of a source has raised within a run, no later
\* source is extracted or loaded in that run, and end_run is called with
\* success=false and the string of the raised exception as error_message.
C2_AbortsOnFirstFailure ==
    (fr.call = "run" /\ \E i \in DOMAIN log : log[i].ev = "raise") =>
        LET i == FirstRaise
        IN  /\ pc \in {"run_except", "returned", "raised"}
            /\ ing = log[i].ing
            /\ \A j \in DOMAIN log : log[j].src # "" => Pos(log[j].src) <= Pos(log[i].src)
            /\ \A j \in (i + 1)..Len(log) : log[j].ev \in {"end_run", "end_run_done"}
            /\ \A r \in Range(rawTbl) \cup Range(cleanedTbl) : r.ing <= log[i].ing
            /\ pc \in AtRest =>
                  /\ Len(log) > i
                  /\ log[i + 1].ev = "end_run"
                  /\ log[i + 1].ok = FALSE
                  /\ log[i + 1].msg = log[i].msg
                  /\ log[i + 1].msg # Null

\* a run has returned after its first source failed while a later source was
\* requested
C2_Witness ==
    /\ fr.call = "run" /\ pc = "returned"
    /\ \E i \in DOMAIN log : log[i].ev = "raise" /\ log[i].src = "coinpaprika"
    /\ "coingecko" \in Requested

\* the ingestions of the first and of the second source of the run in progress
FirstIng == IF Len(log) >= 2 /\ log[2].src # "" THEN log[2].ing ELSE 0

\* source 1 of the run completed and the extractor of source 2 raised
PartialFailure ==
    /\ fr.call = "run" /\ FirstIng # 0
    /\ IngestReturned(FirstIng)
    /\ \E j \in DOMAIN log :
          log[j].ev = "extract" /\ ~log[j].ok /\ log[j].ing = FirstIng + 1

\* C3: after a run in which source 1 completed and the extractor of source 2
\* raised, the cleaned records loaded for source 1 are committed, and the run
\* has produced exactly one RunRecord, ended with success=false and a
\* non-null error_message.
C3_PartialFailureKeepsSource1 ==
    (PartialFailure /\ pc \in {"returned", "raised"}) =>
        /\ CleanedOf(FirstIng) = ValidRecords(log[2].src, RawOf(FirstIng))
        /\ Len(runTbl) = log[1].n /\ run_id = log[1].n
        /\ runTbl[run_id].success = FALSE
        /\ runTbl[run_id].error_message # Null

\* C4: a checkpoint written by an ingestion is there only once the commit of
\* that ingestion's cleaned batch has succeeded: in every state, committed or
\* pending, it stands for cleaned records that are committed.
C4_CheckpointAfterCommit ==
    \A row \in Range(ckptTbl) \cup {o.row : o \in {q \in Range(pending) : q.tbl = "ckpt"}} :
        row.ing # 0 =>
            /\ row.ing \in cleanedDone
            /\ Len(CleanedOf(row.ing)) = row.last_processed_id

C4_Witness ==
    \E row \in Range(ckptTbl) : row.ing # 0 /\ row.last_processed_id > 0

\* the ingestion in progress (or the last one of the call) is over
IngestOver == fr.call \in {"run", "ingest"} /\ fr.ing # 0

\* the step at which ingestion k raised
FailedStep(k) ==
    LET i == CHOOSE i \in DOMAIN log : log[i].ev = "raise" /\ log[i].ing = k
    IN  log[i - 1].ev

AllVisible(k) ==
    /\ RawOf(k) = fr.raw_data
    /\ CleanedOf(k) = ValidRecords(fr.cur, fr.raw_data)
    /\ \E i \in CkptBy(k) :
          /\ ckptTbl[i].source = fr.cur
          /\ ckptTbl[i].last_processed_id = Len(CleanedOf(k))

\* C5 (as claimed): the writes of one ingestion are one transaction: if the
\* ingestion raises, none of the rows it wrote (raw, cleaned, checkpoint) is
\* visible afterwards, and if it returns, all of them are.
C5_OneTransaction ==
    IngestOver =>
        /\ IngestRaised(fr.ing) =>
              RawOf(fr.ing) = <<>> /\ CleanedOf(fr.ing) = <<>> /\ CkptBy(fr.ing) = {}
        /\ IngestReturned(fr.ing) => AllVisible(fr.ing)

\* C5 (amended): the writes of one ingestion are three successive
\* transactions, raw rows, cleaned rows, checkpoint: if the ingestion raises
\* at a step, the rows of the transactions committed before that step are
\* visible and no row of the failing or of a later step is; if it returns, all
\* of them are.
C5_ThreeTransactions ==
    IngestOver =>
        /\ IngestRaised(fr.ing) =>
              /\ RawOf(fr.ing) =
                    IF FailedStep(fr.ing) \in {"transform", "cleaned", "checkpoint"}
                    THEN fr.raw_data ELSE <<>>
              /\ CleanedOf(fr.ing) =
                    IF FailedStep(fr.ing) = "checkpoint"
                    THEN ValidRecords(fr.cur, fr.raw_data) ELSE <<>>
              /\ CkptBy(fr.ing) = {}
        /\ IngestReturned(fr.ing) => AllVisible(fr.ing)

\* an ingestion raised at the commit of its cleaned batch: its raw rows are
\* visible, its cleaned rows are not
C5_Witness ==
    /\ IngestOver /\ IngestRaised(fr.ing)
    /\ FailedStep(fr.ing) = "cleaned"
    /\ RawOf(fr.ing) # <<>>
    /\ ValidRecords(fr.cur, fr.raw_data) # <<>>

\* C6 (as claimed): over runs and ingestions, the stored last_processed_id of
\* a source never decreases.
C6_Monotonic ==
    [][fr'.call # "update_checkpoint" =>
          \A source \in SourceNames : get_checkpoint(source)' >= get_checkpoint(source)]_vars

\* C6 (amended): over runs and ingestions, the stored last_processed_id of a
\* source changes only when an ingestion of that source returns, and then it
\* is the number of cleaned records that ingestion loaded, never negative: it
\* can decrease from one ingestion to the next; a checkpoint row is never
\* removed.
C6_PerCallCount ==
    [][fr'.call # "update_checkpoint" =>
          \A source \in SourceNames :
              /\ FirstCkpt(source) # 0 => FirstCkpt(source)' # 0
              /\ get_checkpoint(source)' >= 0
              /\ (get_checkpoint(source)' # get_checkpoint(source)) =>
                    /\ pc = "checkpoint" /\ fr.cur = source
                    /\ get_checkpoint(source)' = Len(CleanedOf(fr.ing))
                    /\ get_checkpoint(source)' = fr.loaded_count]_vars

\* two ingestions of one source have returned and the second one has lowered
\* the stored cursor
C6_Witness ==
    \E i, j \in DOMAIN ckptCalls :
        /\ i < j
        /\ ckptCalls[i].source = ckptCalls[j].source
        /\ ckptCalls[i].ing # 0 /\ ckptCalls[j].ing # 0
        /\ ckptCalls[j].last_id < ckptCalls[i].last_id
        /\ get_checkpoint(ckptCalls[j].source) = ckptCalls[j].last_id

\* the cursor of the most recent update_checkpoint that returned, 0 if none
Written(source) == {i \in DOMAIN ckptCalls : ckptCalls[i].source = source}
LastWritten(source) ==
    IF Written(source) = {} THEN 0
    ELSE ckptCalls[CHOOSE i \in Written(source) : \A j \in Written(source) : j <= i].last_id

\* C7: the checkpoint store is a map from source to cursor with default 0:
\* after any sequence of update_checkpoint calls there is exactly one row for
\* each source written, get_checkpoint returns the cursor of the most recent
\* call for the source, and 0 for a source never written.
C7_CheckpointMap ==
    \A source \in CkptSources \cup {"unknown-source"} :
        /\ Cardinality({i \in DOMAIN ckptTbl : ckptTbl[i].source = source}) =
              IF Written(source) = {} THEN 0 ELSE 1
        /\ get_checkpoint(source) = LastWritten(source)

\* update_checkpoint has returned twice for the same source and cursor
C7_Witness ==
    \E i, j \in DOMAIN ckptCalls :
        /\ i < j
        /\ ckptCalls[i].source = ckptCalls[j].source
        /\ ckptCalls[i].last_id = ckptCalls[j].last_id
        /\ ckptCalls[j].last_id > 0

\* C8: one call of get_tickers issues at most two requests (one retry after a
\* 429), whatever the upstream answers.
C8_AtMostTwoRequests == fr.requests <= 2

\* C9: get_coins_markets recovers from a 429 response: the call does not
\* raise because of it, and no error reaches the orchestrator.
C9_CoinGeckoRecovers ==
    \A i \in DOMAIN log :
        ~(log[i].ev = "extract" /\ log[i].src = "coingecko" /\ log[i].n = 429 /\ ~log[i].ok)

\* C10: a transformer returns without raising, and its output holds, in
\* input order, a record for every valid item of its input list.
C10_NeverAbortsBatch ==
    tPc = "done" => ~tOut.raised /\ tOut.out = ValidRecords(tSrc, tIn)

HasMap(m, k) == k \in DOMAIN m /\ m[k].t = "map"

\* the item is a mapping that holds no price field
NoPriceField(source, item) ==
    /\ item.t = "map"
    /\ CASE source = "coinpaprika" ->
              ~(/\ HasMap(item.m, "quotes")
                /\ HasMap(item.m.quotes.m, "USD")
                /\ "price" \in DOMAIN item.m.quotes.m.USD.m)
         [] source = "coingecko" -> "current_price" \notin DOMAIN item.m
         [] source = "csv" -> "price_usd" \notin DOMAIN item.m /\ "price" \notin DOMAIN item.m

Defaulting(source, raw_data) ==
    {i \in DOMAIN raw_data : NoPriceField(source, raw_data[i])}

\* C11: every record a transformer puts out has price_usd > 0; whenever the
\* input holds items with no price field, the call does not raise, none of
\* these items yields a record and each of them is counted as an error.
C11_PricePositive ==
    tPc = "done" =>
        /\ \A i \in DOMAIN tOut.out : tOut.out[i].price_usd > 0
        /\ Defaulting(tSrc, tIn) # {} =>
              /\ ~tOut.raised
              /\ \A i \in Defaulting(tSrc, tIn) : ItemOutcome(tSrc, tIn[i]).kind = "skip"
              /\ tOut.errors >= Cardinality(Defaulting(tSrc, tIn))
              /\ Len(tOut.out) + tOut.errors = Len(tIn)

\* the rules of the schema, on a stored record
NonNegOrNull(v) == v = Null \/ v.n >= 0

PassesRules(rec) ==
    /\ rec.crypto_id # <<>> /\ Strip(rec.crypto_id) = rec.crypto_id
    /\ rec.crypto_name # <<>> /\ Strip(rec.crypto_name) = rec.crypto_name
    /\ rec.price_usd > 0
    /\ NonNegOrNull(rec.market_cap_usd)
    /\ NonNegOrNull(rec.volume_24h_usd)

\* the item has the shape the transformer reads: a mapping, whose quotes and
\* USD values, where present, are mappings
WellFormed(source, item) ==
    /\ item.t = "map"
    /\ source = "coinpaprika" =>
          \/ "quotes" \notin DOMAIN item.m
          \/ /\ HasMap(item.m, "quotes")
             /\ "USD" \in DOMAIN item.m.quotes.m => HasMap(item.m.quotes.m, "USD")

CleanedPending == {o.row : o \in {q \in Range(pending) : q.tbl = "cleaned"}}

\* C12: no cleaned row, committed or pending, breaks a validation rule; an
\* ingestion never fails in its transform step on a batch of well-formed
\* items, whatever rules they break; and after an ingestion has returned, the
\* cleaned rows it added are the records of the valid items of its batch, in
\* order, and it has returned their number.
C12_InvalidNeverPersisted ==
    /\ \A r \in Range(cleanedTbl) \cup CleanedPending : PassesRules(r.rec)
    /\ IngestOver =>
          /\ (IngestRaised(fr.ing) /\ FailedStep(fr.ing) = "transform") =>
                \E i \in DOMAIN fr.raw_data : ~WellFormed(fr.cur, fr.raw_data[i])
          /\ IngestReturned(fr.ing) =>
                /\ CleanedOf(fr.ing) = ValidRecords(fr.cur, fr.raw_data)
                /\ fr.loaded_count = Len(CleanedOf(fr.ing))
                /\ fr.call = "ingest" => fr.result = Num(Len(CleanedOf(fr.ing)))

\* an ingestion has returned whose batch held an item that breaks a rule
C12_Witness ==
    /\ IngestOver /\ IngestReturned(fr.ing)
    /\ \E i \in DOMAIN fr.raw_data :
          /\ WellFormed(fr.cur, fr.raw_data[i])
          /\ ItemOutcome(fr.cur, fr.raw_data[i]).kind = "skip"
    /\ fr.result = Num(0)

\* a call of run is past start_run / is over
RunStarted == fr.call = "run" /\ pc # "start_run"
RunOver == fr.call = "run" /\ pc \in {"returned", "raised"}

\* C13: a call of run has created exactly one RunRecord, which has
\* success=false and no ended_at while the run goes on, and has been mutated
\* exactly once, with ended_at set, when the run is over.
C13_RunRecordLifecycle ==
    RunStarted =>
        /\ log # <<>> /\ log[1].ev = "start_run" /\ log[1].ok
        /\ Len(runTbl) = log[1].n /\ run_id = log[1].n
        /\ ~RunOver =>
              /\ runTbl[run_id].writes = 0
              /\ ~runTbl[run_id].ended_at /\ runTbl[run_id].success = FALSE
        /\ RunOver =>
              /\ runTbl[run_id].writes = 1
              /\ runTbl[run_id].ended_at

\* the ingestions the call in progress has started
IngestionsOfCall == {log[i].ing : i \in {j \in DOMAIN log : log[j].src # ""}}

RECURSIVE SumLoaded(_)
SumLoaded(K) ==
    IF K = {} THEN 0
    ELSE LET k == CHOOSE x \in K : TRUE
         IN  Len(CleanedOf(k)) + SumLoaded(K \ {k})

\* the first end_run call of the run in progress
EndRunCalled == fr.call = "run" /\ \E i \in DOMAIN log : log[i].ev = "end_run"
FirstEndRun ==
    CHOOSE i \in DOMAIN log :
        log[i].ev = "end_run" /\ \A j \in 1..(i - 1) : log[j].ev # "end_run"

TotalsRight ==
    /\ log[FirstEndRun].ok
    /\ log[FirstEndRun].n = SumLoaded(IngestionsOfCall)
    /\ log[FirstEndRun].n = fr.total_records

\* C14: when all requested sources have completed, end_run is called with
\* success=true and the sum of the counts of the ingestions of the run, and
\* run then returns True.
C14_TotalsAndTrue ==
    (EndRunCalled /\ AllCompleted) =>
        /\ TotalsRight
        /\ pc = "returned" /\ fr.result = Bool(TRUE)

\* C15: a call of end_run made while run_id is unset, or names no existing
\* RunRecord, returns and changes no RunRecord, checkpoint, raw row or
\* cleaned row.
C15_EndRunNoop ==
    [][(fr'.call = "end_run" /\ calls' # calls /\ run_id \notin DOMAIN runTbl) =>
          (pc' = "returned" /\ UNCHANGED dbvars)]_vars

\* the ingestion in progress has committed its raw batch
RawCommitted ==
    /\ IngestOver
    /\ \E i \in DOMAIN log : log[i].ev = "raw" /\ log[i].ok /\ log[i].ing = fr.ing

IsPrefix(a, b) == Len(a) <= Len(b) /\ SubSeq(b, 1, Len(a)) = a

\* C16: the raw batch is committed before the transformation starts; from
\* then on, whatever the later steps of the ingestion do, there is one raw row
\* per extracted item; and no step removes or changes a raw row.
C16_RawRowsPersist ==
    /\ [](/\ (IngestOver /\ pc \in {"transform", "commit_cleaned", "checkpoint"}) => RawCommitted
          /\ RawCommitted => RawOf(fr.ing) = fr.raw_data)
    /\ [][IsPrefix(rawTbl, rawTbl')]_vars

\* an ingestion has raised at its checkpoint step after no item of its batch
\* passed validation, and its raw rows are there
C16_Witness ==
    /\ RawCommitted /\ IngestRaised(fr.ing)
    /\ FailedStep(fr.ing) = "checkpoint"
    /\ RawOf(fr.ing) # <<>>
    /\ ValidRecords(fr.cur, fr.raw_data) = <<>>

\* ingestion k has returned, for this source
ReturnedFor(k, source) ==
    \E i \in DOMAIN ckptCalls : ckptCalls[i].ing = k /\ ckptCalls[i].source = source

\* C17: an ingestion that follows a returned ingestion of the same source,
\* the upstream data being the same, loads none of the items that the earlier
\* one has loaded.
C17_NoReprocessing ==
    \A source \in SourceNames : \A k1, k2 \in 1..ing :
        (/\ k1 < k2
         /\ ReturnedFor(k1, source) /\ ReturnedFor(k2, source)
         /\ RawOf(k1) = RawOf(k2)) =>
            Range(CleanedOf(k1)) \cap Range(CleanedOf(k2)) = {}

\* ------------------------------------------- concurrent update_checkpoint
\* Two pipelines, each with a session of its own (SessionLocal()), call
\* update_checkpoint for the same source on the same database.  ckptTbl is the
\* committed table both see; what a session has read or changed and not yet
\* committed is in wFound and wId.
WriterSource == "coinpaprika"

\* update_checkpoint(source, last_id) is entered
writer_call(w, last_id) ==
    /\ wPc[w] = "idle" /\ wCalls[w] < MaxWriterCalls
    /\ wPc' = [wPc EXCEPT ![w] = "read"]
    /\ wId' = [wId EXCEPT ![w] = last_id]
    /\ wOut' = [wOut EXCEPT ![w] = "none"]
    /\ wCalls' = [wCalls EXCEPT ![w] = @ + 1]
    /\ UNCHANGED <<wFound, pvars, tvars, avars>>

\* the query for the row of the source, then the change made in the session:
\* the found row's attributes set, or a new object added
writer_read(w) ==
    /\ wPc[w] = "read"
    /\ wFound' = [wFound EXCEPT ![w] = FirstCkpt(WriterSource)]
    /\ wPc' = [wPc EXCEPT ![w] = "commit"]
    /\ UNCHANGED <<wId, wOut, wCalls, pvars, tvars, avars>>

\* the table after the flush of writer w: an UPDATE of the row it found, by
\* its primary key, or an INSERT
WriterFlushed(w) ==
    IF wFound[w] # 0
    THEN [ckptTbl EXCEPT ![wFound[w]] = CkptRow(WriterSource, wId[w], 0)]
    ELSE Append(ckptTbl, CkptRow(WriterSource, wId[w], 0))

\* the INSERT of writer w meets a committed row of the same source: the
\* unique constraint on etl_checkpoints.source
WriterConflict(w) == wFound[w] = 0 /\ FirstCkpt(WriterSource) # 0

writer_commit_ok(w) ==
    /\ wPc[w] = "commit" /\ ~WriterConflict(w)
    /\ ckptTbl' = WriterFlushed(w)
    /\ wPc' = [wPc EXCEPT ![w] = "idle"]
    /\ wOut' = [wOut EXCEPT ![w] = "ok"]
    /\ UNCHANGED <<wFound, wId, wCalls, rawTbl, cleanedTbl, runTbl, pending, sessOk,
                   run_id, pc, fr, ing, calls, log, ckptCalls, cleanedDone, tvars, avars>>

\* self.db.commit() raises IntegrityError out of update_checkpoint
writer_commit_conflict(w) ==
    /\ wPc[w] = "commit" /\ WriterConflict(w)
    /\ wPc' = [wPc EXCEPT ![w] = "raised"]
    /\ wOut' = [wOut EXCEPT ![w] = "IntegrityError"]
    /\ UNCHANGED <<wFound, wId, wCalls, pvars, tvars, avars>>

NextWriters ==
    \/ \E w \in Writers : \E last_id \in 1..MaxWriterCursor : writer_call(w, last_id)
    \/ \E w \in Writers : writer_read(w)
    \/ \E w \in Writers : writer_commit_ok(w)
    \/ \E w \in Writers : writer_commit_conflict(w)

SpecWriters == Init /\ [][NextWriters]_vars

\* the rows of the source in the committed table
WriterRows == {i \in DOMAIN ckptTbl : ckptTbl[i].source = WriterSource}

\* both writers have made a call and none is in progress
WritersAtRest ==
    \A w \in Writers : wCalls[w] > 0 /\ wPc[w] \in {"idle", "raised"}

\* C18: no update_checkpoint call of two concurrent writers fails, and when
\* both have finished there is exactly one row for the source, which holds
\* the cursor one of them passed last.
C18_AtomicUpsert ==
    /\ \A w \in Writers : wOut[w] # "IntegrityError"
    /\ WritersAtRest =>
          /\ Cardinality(WriterRows) = 1
          /\ \A i \in WriterRows :
                \E w \in Writers : ckptTbl[i].last_processed_id = wId[w]

\* ------------------------------------------------------------ run to its end
\* The steps inside a call: the interpreter runs the next statement of a call
\* in progress, the database answers, and every request to a source gets a
\* response.  Nothing promises that a new call is ever made.
CallStep ==
    \/ start_run_ok \/ start_run_fail
    \/ run_ingest \/ run_skip
    \/ get_tickers_ok \/ get_tickers_429 \/ get_tickers_limit \/ get_tickers_error
    \/ get_coins_markets_ok
    \/ \E status \in {429, 500} : get_coins_markets_error(status)
    \/ read_ok \/ read_error
    \/ add_raw \/ commit_raw_ok \/ commit_raw_fail
    \/ load \/ transform_raises
    \/ commit_cleaned_ok \/ commit_cleaned_fail
    \/ checkpoint_ok \/ checkpoint_fail
    \/ ingest_except
    \/ run_end \/ run_except

SpecLive == Init /\ [][Next]_vars /\ WF_vars(CallStep)

\* C19: whenever a run has begun (its row is in etl_runs), the row eventually
\* has ended_at set.
C19_RunEventuallyEnds ==
    \A i \in 1..MaxCalls :
        (i \in DOMAIN runTbl) ~> (i \in DOMAIN runTbl /\ runTbl[i].ended_at)

\* ------------------------------------------------------------ order of sources
\* the steps of the run in progress that belong to a source
SourceSteps == {i \in DOMAIN log : log[i].src # ""}

\* the ingestion that made step j has written its checkpoint before step k
FinishedBefore(j, k) ==
    \E c \in j..(k - 1) :
        log[c].ev = "checkpoint" /\ log[c].ok /\ log[c].ing = log[j].ing

\* C20: within a run the sources are processed in the order coinpaprika,
\* coingecko, csv, whatever the order of the names in the argument, and one
\* after the other: when the extraction of a source starts, every step of the
\* sources before it (raw store, transform, cleaned load, checkpoint write) is
\* finished and nothing of them waits in the session.
C20_FixedOrder ==
    fr.call = "run" =>
        /\ \A j, k \in SourceSteps : j < k => Pos(log[j].src) <= Pos(log[k].src)
        /\ \A k \in SourceSteps : log[k].ev = "extract" =>
              \A j \in SourceSteps : (j < k /\ log[j].ing # log[k].ing) =>
                  /\ Pos(log[j].src) < Pos(log[k].src)
                  /\ FinishedBefore(j, k)
        /\ pc = "extract" =>
              /\ pending = <<>>
              /\ \A j \in SourceSteps : FinishedBefore(j, Len(log) + 1)

\* a run called with ["coingecko", "coinpaprika"] has extracted from coingecko
\* after its coinpaprika ingestion
C20_Witness ==
    /\ fr.call = "run" /\ fr.sources = <<"coingecko", "coinpaprika">>
    /\ \E j, k \in SourceSteps :
          /\ j < k
          /\ log[j].src = "coinpaprika" /\ log[j].ev = "checkpoint"
          /\ log[k].src = "coingecko" /\ log[k].ev = "extract"

\* ------------------------------------------------------------ crypto_id
\* the id of a raw item, as text
RawId(item) == PyStr(Get(item.m, "id", Str(<<>>)))

\* two raw items whose ids differ at most in letter case and in surrounding
\* whitespace
IdsAlike(a, b) ==
    /\ a.t = "map" /\ b.t = "map"
    /\ "id" \in DOMAIN a.m /\ "id" \in DOMAIN b.m
    /\ a.m.id.t = "str" /\ b.m.id.t = "str"
    /\ Strip(Lower(RawId(a))) = Strip(Lower(RawId(b)))

\* every item of the input has yielded a record: tOut.out[i] is the record
\* of tIn[i]
AllKept == tPc = "done" /\ ~tOut.raised /\ Len(tOut.out) = Len(tIn)

\* C21: for each transformer, two raw items whose ids differ only in letter
\* case or surrounding whitespace yield records with the same crypto_id.
C21_IdNormalized ==
    AllKept =>
        \A i, j \in DOMAIN tIn :
            IdsAlike(tIn[i], tIn[j]) => tOut.out[i].crypto_id = tOut.out[j].crypto_id

\* ------------------------------------------------------------ GET /data/{id}
\* the ids that are asked for
LookupIds == {<<"a">>, <<"A">>, <<"z">>}

\* query.filter(CleanedData.crypto_id == crypto_id.lower()): the rows found
Filtered(crypto_id) ==
    {i \in DOMAIN cleanedTbl : cleanedTbl[i].rec.crypto_id = Lower(crypto_id)}

\* order_by(desc(created_at)).first(): rows are created in the order of
\* their insertion, so the latest row is the one of greatest index
Latest(found) == CHOOSE i \in found : \A j \in found : j <= i

Response(crypto_id, found) ==
    IF found = {}
    THEN [status |-> 404, crypto_id |-> crypto_id, row |-> Null]
    ELSE [status |-> 200, crypto_id |-> crypto_id, row |-> cleanedTbl[Latest(found)]]

\* get_crypto_by_id(crypto_id), no source given: it reads the committed
\* table through a session of its own (get_db)
get_crypto_by_id(crypto_id) ==
    /\ apiCalls < MaxLookups
    /\ apiCalls' = apiCalls + 1
    /\ apiResp' = Response(crypto_id, Filtered(crypto_id))
    /\ UNCHANGED <<pvars, tvars, wvars>>

\* the query raises: except Exception -> HTTPException(500)
get_crypto_by_id_error(crypto_id) ==
    /\ apiCalls < MaxLookups
    /\ apiCalls' = apiCalls + 1
    /\ apiResp' = [status |-> 500, crypto_id |-> crypto_id, row |-> Null]
    /\ UNCHANGED <<pvars, tvars, wvars>>

NextApi ==
    \/ Next
    \/ \E crypto_id \in LookupIds : get_crypto_by_id(crypto_id)
    \/ \E crypto_id \in LookupIds : get_crypto_by_id_error(crypto_id)

SpecApi == Init /\ [][NextApi]_vars

\* the cleaned rows whose crypto_id is the given id
WithId(crypto_id) == {i \in DOMAIN cleanedTbl : cleanedTbl[i].rec.crypto_id = crypto_id}

\* C22: a lookup of an id that some cleaned row has answers with the most
\* recently created cleaned row whose crypto_id is that id; and a lookup
\* answers 404 only when no cleaned row has the requested id.  (A lookup whose
\* query fails answers 500 and is not meant.)
C22_LookupLatest ==
    [][(apiCalls' # apiCalls /\ apiResp'.status # 500) =>
          /\ apiResp'.status = 404 => WithId(apiResp'.crypto_id) = {}
          /\ WithId(apiResp'.crypto_id) # {} =>
                /\ apiResp'.status = 200
                /\ apiResp'.row = cleanedTbl[Latest(WithId(apiResp'.crypto_id))]]_vars

\* ------------------------------------------------------------ csv fields
\* the row holds both names of a field
HasBoth(item, usd, plain) ==
    item.t = "map" /\ usd \in DOMAIN item.m /\ plain \in DOMAIN item.m

\* the number that lines 131-133 make of the value v of a field
FieldValue(v, dflt) == CsvNumber(v, dflt).v

\* C23: for every csv row that yields a record and holds both names of a
\* field, the record has the value of the `_usd` field, whatever that value
\* is (0 and the empty string included).
C23_PrefersUsd ==
    (AllKept /\ tSrc = "csv") =>
        \A i \in DOMAIN tIn :
            /\ HasBoth(tIn[i], "price_usd", "price") =>
                  Num(tOut.out[i].price_usd) = FieldValue(tIn[i].m.price_usd, Num(0))
            /\ HasBoth(tIn[i], "market_cap_usd", "market_cap") =>
                  tOut.out[i].market_cap_usd = FieldValue(tIn[i].m.market_cap_usd, Null)
            /\ HasBoth(tIn[i], "volume_24h_usd", "volume") =>
                  tOut.out[i].volume_24h_usd = FieldValue(tIn[i].m.volume_24h_usd, Null)

\* the csv row without its market-cap and volume fields
RequiredOnly(item) ==
    Map([k \in DOMAIN item.m \ {"market_cap_usd", "market_cap", "volume_24h_usd", "volume"}
            |-> item.m[k]])

\* the value lines 127-128 pick for an optional field
OptionalRaw(item, usd, plain) == PyOr(Get(item.m, usd, Null), Get(item.m, plain, Null))

\* a string that float() does not parse, or the empty string
BadNumber(v) == v.t = "str" /\ ~ParseFloat(RemoveCommas(v.s)).ok

\* a value that parses to a negative number
Negative(v) ==
    /\ Truthy(v)
    /\ ParseFloat(RemoveCommas(PyStr(v))).ok
    /\ ParseFloat(RemoveCommas(PyStr(v))).n < 0

\* a row with a valid id, name and price, whose optional fields are absent,
\* non-negative numbers, or strings that are empty or unparsable
GoodButOptional(item) ==
    /\ item.t = "map"
    /\ ItemCsv(RequiredOnly(item)).kind = "ok"
    /\ ~Negative(OptionalRaw(item, "market_cap_usd", "market_cap"))
    /\ ~Negative(OptionalRaw(item, "volume_24h_usd", "volume"))

\* C24: a csv row with a valid id, name and price is kept, with None in each
\* optional field (market cap, volume) whose string is empty or unparsable.
C24_BadOptionalIsNone ==
    (tPc = "done" /\ tSrc = "csv" /\ \A i \in DOMAIN tIn : GoodButOptional(tIn[i])) =>
        /\ AllKept
        /\ \A i \in DOMAIN tIn :
              /\ BadNumber(OptionalRaw(tIn[i], "market_cap_usd", "market_cap")) =>
                    tOut.out[i].market_cap_usd = Null
              /\ BadNumber(OptionalRaw(tIn[i], "volume_24h_usd", "volume")) =>
                    tOut.out[i].volume_24h_usd = Null

\* ------------------------------------------------------------ checkpoint value
\* the step by which an ingestion returns
IngestReturns == pc = "checkpoint" /\ pc' \in {"run_if", "returned"}

\* the count the returning ingestion hands back: its return value, which a
\* run adds to total_records
ReturnedCount ==
    IF fr.call = "run" THEN fr'.total_records - fr.total_records ELSE fr'.result.n

\* C25: when an ingestion returns, the checkpoint row of its source is there
\* and holds the count the call returns, which is the number of cleaned
\* records this call has loaded (0 when nothing was extracted).
C25_CheckpointIsReturnedCount ==
    [][IngestReturns =>
          /\ FirstCkpt(fr.cur)' # 0
          /\ get_checkpoint(fr.cur)' = ReturnedCount
          /\ ReturnedCount = Len(CleanedOf(fr.ing)')
          /\ fr.raw_data = <<>> => get_checkpoint(fr.cur)' = 0]_vars

\* an ingestion that extracted nothing has returned 0 and has put 0 in place
\* of the count an earlier ingestion of the source left
C25_Witness ==
    /\ pc = "returned" /\ fr.call = "ingest"
    /\ fr.raw_data = <<>> /\ fr.result = Num(0)
    /\ FirstCkpt(fr.cur) # 0 /\ get_checkpoint(fr.cur) = 0
    /\ \E i \in DOMAIN ckptCalls :
          ckptCalls[i].source = fr.cur /\ ckptCalls[i].ing # 0 /\ ckptCalls[i].last_id > 0

\* ------------------------------------------------------------ finalized records
\* the message is there exactly when the record says failure
MessageIffFailed(row) == (row.error_message # Null) <=> ~row.success

\* the record of the run in progress (or just over) is finalized
OwnRecordFinal ==
    /\ RunStarted /\ log # <<>> /\ log[1].ok
    /\ run_id \in DOMAIN runTbl /\ runTbl[run_id].ended_at

\* every requested known source has, in this run, committed its cleaned
\* batch and written its checkpoint
AllLoadedAndMarked ==
    \A source \in Requested :
        \E i \in DOMAIN log :
            /\ log[i].ev = "checkpoint" /\ log[i].ok /\ log[i].src = source
            /\ log[i].ing \in cleanedDone
            /\ \E j \in DOMAIN ckptTbl :
                  ckptTbl[j].source = source /\ ckptTbl[j].ing = log[i].ing

\* C26 (as claimed): in every state, every finalized RunRecord has an
\* error_message exactly when its success is false, and the record of a run
\* says success only after every requested known source has committed its
\* cleaned batch and written its checkpoint in that run.
C26_EveryFinalRecord ==
    /\ \A i \in DOMAIN runTbl : runTbl[i].ended_at => MessageIffFailed(runTbl[i])
    /\ (OwnRecordFinal /\ runTbl[run_id].success) => AllLoadedAndMarked

\* C26 (amended): the record that a run finalizes has an error_message
\* exactly when its success is false, and says success only after every
\* requested known source has committed its cleaned batch and written its
\* checkpoint in that run; a later end_run call made by the caller can
\* finalize the record again with any success flag and no message.
C26_RecordOfRun ==
    OwnRecordFinal =>
        /\ MessageIffFailed(runTbl[run_id])
        /\ runTbl[run_id].success => AllLoadedAndMarked
        /\ runTbl[run_id].success <=> (pc = "returned" /\ fr.result = Bool(TRUE))

\* a run of two sources has finalized its record with success, and (on the
\* same pipeline) an earlier run has finalized its own with a message
C26_Witness ==
    /\ OwnRecordFinal /\ runTbl[run_id].success
    /\ Cardinality(Requested) = 2
    /\ \E i \in DOMAIN runTbl :
          runTbl[i].ended_at /\ ~runTbl[i].success /\ runTbl[i].error_message # Null

\* C27: the record a run has finalized, with success or with failure, has in
\* records_processed the number of cleaned rows that the ingestions of the run
\* have committed, wherever an ingestion failed.
C27_RecordsProcessedIsCommitted ==
    OwnRecordFinal => runTbl[run_id].records_processed = SumLoaded(IngestionsOfCall)

\* ------------------------------------------------------------ pending writes
\* the raw and cleaned objects added to the session and not committed
PendingData == {o \in Range(pending) : o.tbl \in {"raw", "cleaned"}}

\* the ingestion in progress is about to commit what it added
OwnCommit(k) == fr.ing = k /\ pc \in {"commit_raw", "commit_cleaned"}

\* C28: raw and cleaned objects wait in the session only until the commit of
\* the ingestion that added them, and the rows of an ingestion become durable
\* by that ingestion's own commits only: what a failed ingestion added and did
\* not commit is written by no later commit (of end_run, of another ingestion
\* or run).
C28_NoLeftoverWrites ==
    /\ [](pc \notin {"commit_raw", "commit_cleaned"} => PendingData = {})
    /\ [][\A k \in 1..MaxIngestions :
            (RawOf(k)' # RawOf(k) \/ CleanedOf(k)' # CleanedOf(k)) => OwnCommit(k)]_vars

\* a run has finalized its record after the commit of a cleaned batch of one
\* record failed: the record of the batch is not in the table
C28_Witness ==
    /\ OwnRecordFinal /\ pc = "returned"
    /\ IngestRaised(fr.ing) /\ FailedStep(fr.ing) = "cleaned"
    /\ ValidRecords(fr.cur, fr.raw_data) # <<>>
    /\ CleanedOf(fr.ing) = <<>>

\* ------------------------------------------------------------ checkpoint frame
\* the checkpoint rows of a source (cursor, and the writer that stands for
\* the timestamps)
CkptOf(source) == {ckptTbl[i] : i \in {j \in DOMAIN ckptTbl : ckptTbl[j].source = source}}

\* C29: while a run or an ingestion is in progress, the checkpoint rows of a
\* source change only by the step with which an ingestion of that source
\* returns: an ingestion changes no checkpoint of another source, and one that
\* raises leaves the checkpoint of its own source as it was (absent or with
\* the same cursor and timestamps).
C29_CheckpointFrame ==
    [][pc \notin AtRest =>
          \A source \in CkptSources :
              CkptOf(source)' # CkptOf(source) => (IngestReturns /\ source = fr.cur)]_vars

\* an ingestion has raised at its checkpoint step, having loaded a number of
\* records other than the cursor its source holds, while another source has
\* a checkpoint too
C29_Witness ==
    /\ IngestOver /\ IngestRaised(fr.ing) /\ FailedStep(fr.ing) = "checkpoint"
    /\ pc \in AtRest
    /\ FirstCkpt(fr.cur) # 0 /\ get_checkpoint(fr.cur) # fr.loaded_count
    /\ \E source \in CkptSources \ {fr.cur} : FirstCkpt(source) # 0

\* ------------------------------------------------------------ unknown names
\* the run in progress was given no known source (unknown names only, or an
\* empty list)
NothingRequested == fr.call = "run" /\ Requested = {}

\* the record start_run has made for the run in progress is finalized as a
\* success with this count and these names
FinalizedAs(row, n, names) ==
    /\ row.ended_at /\ row.success /\ row.error_message = Null
    /\ row.records_processed = n /\ row.source = names

\* C30: a run whose list holds no known source starts no ingestion and writes
\* no raw row, no cleaned row and no checkpoint; it ends with its RunRecord
\* finalized with success=true, records_processed=0 and the names as given in
\* source, and returns True without raising.
C30_UnknownNamesAreSkipped ==
    /\ []((NothingRequested /\ pc \in {"returned", "raised"}) =>
            /\ pc = "returned" /\ fr.result = Bool(TRUE)
            /\ log # <<>> /\ log[1].ev = "start_run" /\ log[1].ok
            /\ log[1].n \in DOMAIN runTbl
            /\ FinalizedAs(runTbl[log[1].n], 0, fr.sources))
    /\ [][(NothingRequested /\ pc \notin AtRest) =>
            (UNCHANGED <<rawTbl, cleanedTbl, ckptTbl, ing>> /\ pc' # "extract")]_vars

====
